---- MODULE Spec2Model ----
(***************************************************************************)
(* Model of the ComfyUI file-browser nodes (nodes/file_browser.py): seven  *)
(* stateless handlers over the host filesystem and process table.          *)
(*                                                                         *)
(* The state is the filesystem, the processes that calls have left         *)
(* running, and a record of the call that has just returned: its           *)
(* arguments, its return tuple, the filesystem before it and the system    *)
(* calls it made.  The orchestrator makes one call at a time and takes the *)
(* returned tuple before the next call.                                    *)
(*                                                                         *)
(* The host is a POSIX host without symbolic links: os.linesep is "\n", a  *)
(* process's returncode is its exit status or minus the signal that ended  *)
(* it, and the locale's encoding is UTF-8.  Directories other than the one *)
(* marked unreadable grant every permission.  The st_size of a directory   *)
(* depends on the file system and is taken to be 0.                        *)
(***************************************************************************)
EXTENDS Integers, Sequences, FiniteSets, TLC

VARIABLES fs, pre, call, ret, trace, calls, procs, pc

vars == <<fs, pre, call, ret, trace, calls, procs, pc>>

(***************************************************************************)
(* Bounds of the model.                                                    *)
(***************************************************************************)
MaxCalls == 2

(***************************************************************************)
(* Names and paths.  A name is a sequence of characters; an absolute path  *)
(* is the sequence of its names below the root.                            *)
(***************************************************************************)
n_at == <<"a", ".", "t">>
n_Bt == <<"B", ".", "t">>
n_bp == <<"b", ".", "p">>
n_S  == <<"S">>
n_u  == <<"u">>
n_L  == <<"L">>
n_h  == <<".", "h">>
n_d  == <<".", "d">>
n_g  == <<"g">>
n_G  == <<"G">>

DOTDOT == <<".", ".">>
DOT    == <<".">>
TILDE  == <<"~">>

Root == << >>
Home == <<n_u>>
Cwd  == <<n_u, n_S>>

\* str.lower() on the characters of the model
LowerChar(c) == CASE c = "B" -> "b" [] c = "S" -> "s" [] c = "L" -> "l"
                  [] c = "G" -> "g" [] OTHER -> c

\* code points of the characters, for string comparison
Ord(c) == CASE c = "." -> 46 [] c = "B" -> 66 [] c = "G" -> 71 [] c = "L" -> 76
            [] c = "S" -> 83 [] c = "a" -> 97 [] c = "b" -> 98 [] c = "d" -> 100
            [] c = "g" -> 103 [] c = "h" -> 104 [] c = "l" -> 108 [] c = "p" -> 112
            [] c = "s" -> 115 [] c = "t" -> 116 [] c = "u" -> 117 [] OTHER -> 0

Lower(name) == [i \in 1..Len(name) |-> LowerChar(name[i])]

\* Python's str < str: lexicographic on code points
RECURSIVE StrLess(_, _)
StrLess(s, t) ==
    IF t = << >> THEN FALSE
    ELSE IF s = << >> THEN TRUE
    ELSE IF Ord(Head(s)) # Ord(Head(t)) THEN Ord(Head(s)) < Ord(Head(t))
    ELSE StrLess(Tail(s), Tail(t))

Front(s) == SubSeq(s, 1, Len(s) - 1)
Last(s)  == s[Len(s)]

(***************************************************************************)
(* A raw path as the caller types it: relative or absolute, its segments   *)
(* (names, ".", "..", a leading "~"), and whether it holds a null byte.    *)
(***************************************************************************)
Raw(abs, segs) == [abs |-> abs, segs |-> segs, nul |-> FALSE]
RawNul(abs, segs) == [abs |-> abs, segs |-> segs, nul |-> TRUE]

\* Path.expanduser(): a leading "~" segment of a relative path becomes the home
expanduser(raw) ==
    IF ~raw.abs /\ raw.segs # << >> /\ Head(raw.segs) = TILDE
    THEN [raw EXCEPT !.abs = TRUE, !.segs = Home \o Tail(raw.segs)]
    ELSE raw

\* lexical normalisation of the segments onto a base path
RECURSIVE Normalize(_, _)
Normalize(base, segs) ==
    IF segs = << >> THEN base
    ELSE IF Head(segs) = DOT THEN Normalize(base, Tail(segs))
    ELSE IF Head(segs) = DOTDOT
         THEN Normalize(IF base = << >> THEN base ELSE Front(base), Tail(segs))
    ELSE Normalize(Append(base, Head(segs)), Tail(segs))

\* Path(p).expanduser().resolve(): ok = FALSE when resolve() raises
\* ValueError("embedded null byte"); no existence check is made
resolve(raw) ==
    LET e == expanduser(raw) IN
    IF e.nul THEN [ok |-> FALSE, path |-> Root, error |-> "embedded null byte"]
    ELSE [ok |-> TRUE,
          path |-> Normalize(IF e.abs THEN Root ELSE Cwd, e.segs),
          error |-> ""]

(***************************************************************************)
(* The filesystem: a function from the existing absolute paths to nodes.   *)
(* A file's bytes are `data` followed by `pad` zero bytes (run-length form *)
(* of a long tail, so that sizes around the megabyte ceiling are states).  *)
(* A directory carries whether it may be listed (mode r).                  *)
(***************************************************************************)
Dir(readable) == [kind |-> "dir", data |-> << >>, pad |-> 0, readable |-> readable]
File(data, pad) == [kind |-> "file", data |-> data, pad |-> pad, readable |-> TRUE]

exists(f, p) == p \in DOMAIN f
is_dir(f, p) == p \in DOMAIN f /\ f[p].kind = "dir"
is_file(f, p) == p \in DOMAIN f /\ f[p].kind = "file"
st_size(f, p) == Len(f[p].data) + f[p].pad

\* the immediate children of a directory
Children(f, p) == {q \in DOMAIN f : q # << >> /\ Front(q) = p}

\* a well-formed tree: the root is a directory, every node's parent is one
WellFormed(f) ==
    /\ Root \in DOMAIN f /\ f[Root].kind = "dir"
    /\ \A p \in DOMAIN f : p # Root => is_dir(f, Front(p))

\* f with path p bound to node n
Put(f, p, n) == [q \in DOMAIN f \cup {p} |-> IF q = p THEN n ELSE f[q]]

\* f without path p
Remove(f, p) == [q \in DOMAIN f \ {p} |-> f[q]]

(***************************************************************************)
(* Text codecs.  A text is a sequence of code points, a file's data a      *)
(* sequence of bytes.  Each codec returns ok = FALSE where Python raises   *)
(* UnicodeEncodeError / UnicodeDecodeError (errors = "strict").            *)
(***************************************************************************)
LF == 10
CR == 13

IsCont(b) == b >= 128 /\ b <= 191

\* str.encode of one code point
EncodeChar(cp, enc) ==
    CASE enc = "ascii" ->
           IF cp < 128 THEN [ok |-> TRUE, bytes |-> <<cp>>]
           ELSE [ok |-> FALSE, bytes |-> << >>]
      [] enc = "latin-1" ->
           IF cp < 256 THEN [ok |-> TRUE, bytes |-> <<cp>>]
           ELSE [ok |-> FALSE, bytes |-> << >>]
      [] OTHER ->
           IF cp < 128 THEN [ok |-> TRUE, bytes |-> <<cp>>]
           ELSE IF cp < 2048
                THEN [ok |-> TRUE, bytes |-> <<192 + (cp \div 64), 128 + (cp % 64)>>]
           ELSE IF cp >= 55296 /\ cp <= 57343 THEN [ok |-> FALSE, bytes |-> << >>]
           ELSE IF cp < 65536
                THEN [ok |-> TRUE,
                      bytes |-> <<224 + (cp \div 4096), 128 + ((cp \div 64) % 64),
                                  128 + (cp % 64)>>]
           ELSE [ok |-> TRUE,
                 bytes |-> <<240 + (cp \div 262144), 128 + ((cp \div 4096) % 64),
                             128 + ((cp \div 64) % 64), 128 + (cp % 64)>>]

RECURSIVE Encode(_, _)
Encode(text, enc) ==
    IF text = << >> THEN [ok |-> TRUE, bytes |-> << >>]
    ELSE LET h == EncodeChar(Head(text), enc)
             t == Encode(Tail(text), enc)
         IN IF h.ok /\ t.ok THEN [ok |-> TRUE, bytes |-> h.bytes \o t.bytes]
            ELSE [ok |-> FALSE, bytes |-> << >>]

\* the length in bytes of the UTF-8 sequence that starts at the head of b,
\* 0 when the head of b starts no valid sequence
Utf8Len(b) ==
    LET b1 == b[1]
        c(i) == Len(b) >= i /\ IsCont(b[i])
    IN IF b1 < 128 THEN 1
       ELSE IF b1 >= 194 /\ b1 <= 223 THEN (IF c(2) THEN 2 ELSE 0)
       ELSE IF b1 >= 224 /\ b1 <= 239
            THEN (IF c(2) /\ c(3) /\ (b1 = 224 => b[2] >= 160)
                     /\ (b1 = 237 => b[2] <= 159) THEN 3 ELSE 0)
       ELSE IF b1 >= 240 /\ b1 <= 244
            THEN (IF c(2) /\ c(3) /\ c(4) /\ (b1 = 240 => b[2] >= 144)
                     /\ (b1 = 244 => b[2] <= 143) THEN 4 ELSE 0)
       ELSE 0

Utf8Point(b, n) ==
    CASE n = 1 -> b[1]
      [] n = 2 -> (b[1] - 192) * 64 + (b[2] - 128)
      [] n = 3 -> (b[1] - 224) * 4096 + (b[2] - 128) * 64 + (b[3] - 128)
      [] OTHER -> (b[1] - 240) * 262144 + (b[2] - 128) * 4096
                    + (b[3] - 128) * 64 + (b[4] - 128)

RECURSIVE Decode(_, _)
Decode(bytes, enc) ==
    IF bytes = << >> THEN [ok |-> TRUE, text |-> << >>]
    ELSE CASE enc = "ascii" ->
                LET t == Decode(Tail(bytes), enc)
                IN IF Head(bytes) < 128 /\ t.ok
                   THEN [ok |-> TRUE, text |-> <<Head(bytes)>> \o t.text]
                   ELSE [ok |-> FALSE, text |-> << >>]
           [] enc = "latin-1" ->
                LET t == Decode(Tail(bytes), enc)
                IN [ok |-> TRUE, text |-> <<Head(bytes)>> \o t.text]
           [] OTHER ->
                LET n == Utf8Len(bytes)
                IN IF n = 0 THEN [ok |-> FALSE, text |-> << >>]
                   ELSE LET t == Decode(SubSeq(bytes, n + 1, Len(bytes)), enc)
                        IN IF t.ok
                           THEN [ok |-> TRUE, text |-> <<Utf8Point(bytes, n)>> \o t.text]
                           ELSE [ok |-> FALSE, text |-> << >>]

\* open(path, 'r') with newline=None: "\r\n" and a lone "\r" are read as "\n"
RECURSIVE UniversalNewlines(_)
UniversalNewlines(text) ==
    IF text = << >> THEN << >>
    ELSE IF Head(text) = CR
         THEN IF Len(text) >= 2 /\ text[2] = LF
              THEN <<LF>> \o UniversalNewlines(SubSeq(text, 3, Len(text)))
              ELSE <<LF>> \o UniversalNewlines(Tail(text))
    ELSE <<Head(text)>> \o UniversalNewlines(Tail(text))

\* open(path, 'w') with newline=None: "\n" is written as os.linesep ("\n")
WriteNewlines(text) == text

(***************************************************************************)
(* Return values.  A status string is its fixed text and the value         *)
(* formatted into it; a JSON payload is a record.  Out is what a handler   *)
(* leaves behind: its return tuple, the filesystem after it, and the       *)
(* system calls it made, in order.                                         *)
(***************************************************************************)
Msg(text, arg) == [text |-> text, arg |-> arg]
Out(r, f, t) == [ret |-> r, fs |-> f, trace |-> t]

\* the longest prefix of p that exists
DeepestExisting(f, p) ==
    LET n == CHOOSE i \in 0..Len(p) :
                 /\ SubSeq(p, 1, i) \in DOMAIN f
                 /\ \A j \in (i + 1)..Len(p) : SubSeq(p, 1, j) \notin DOMAIN f
    IN SubSeq(p, 1, n)

\* Path.mkdir(parents=parents, exist_ok=exist_ok): the filesystem after it, or
\* the OSError it raises.  A failing mkdir has created nothing.
mkdir(f, p, parents, exist_ok) ==
    LET a == DeepestExisting(f, p)
        missing == {SubSeq(p, 1, i) : i \in (Len(a) + 1)..Len(p)}
    IN IF a = p
       THEN IF exist_ok /\ is_dir(f, p)
            THEN [ok |-> TRUE, fs |-> f, error |-> ""]
            ELSE [ok |-> FALSE, fs |-> f, error |-> "FileExistsError"]
       ELSE IF ~is_dir(f, a)
            THEN [ok |-> FALSE, fs |-> f, error |-> "NotADirectoryError"]
       ELSE IF Len(a) < Len(p) - 1 /\ ~parents
            THEN [ok |-> FALSE, fs |-> f, error |-> "FileNotFoundError"]
       ELSE [ok |-> TRUE,
             fs |-> [q \in DOMAIN f \cup missing |->
                       IF q \in DOMAIN f THEN f[q] ELSE Dir(TRUE)],
             error |-> ""]

\* Path.parent: the root is its own parent
Parent(p) == IF p = Root THEN Root ELSE Front(p)

\* Path.name: the root has the empty name
Name(p) == IF p = Root THEN << >> ELSE Last(p)

(***************************************************************************)
(* FileDelete.delete_file                                                  *)
(***************************************************************************)
\* a variant of delete_file that resolves the path before it looks at the
\* confirmation
delete_file_resolve_first(f, file_path, confirm_delete) ==
    LET r == resolve(file_path)
        path == r.path
    IN IF ~r.ok
       THEN Out([status |-> Msg("Error: embedded null byte", Root)], f, <<"resolve">>)
       ELSE IF ~confirm_delete
       THEN Out([status |-> Msg("Error: confirm_delete must be True to delete files",
                                Root)], f, <<"resolve">>)
       ELSE IF ~exists(f, path)
       THEN Out([status |-> Msg("Error: File does not exist: ", path)],
                f, <<"resolve", "stat">>)
       ELSE IF ~is_file(f, path)
       THEN Out([status |-> Msg("Error: Path is not a file: ", path)],
                f, <<"resolve", "stat", "stat">>)
       ELSE Out([status |-> Msg("Successfully deleted: ", path)],
                Remove(f, path), <<"resolve", "stat", "stat", "unlink">>)

\* a variant of delete_file without the is_file check, that removes a
\* directory with everything below it
delete_file_any_kind(f, file_path, confirm_delete) ==
    LET r == resolve(file_path)
        path == r.path
        below == {q \in DOMAIN f : Len(q) >= Len(path)
                                   /\ SubSeq(q, 1, Len(path)) = path}
    IN IF ~confirm_delete
       THEN Out([status |-> Msg("Error: confirm_delete must be True to delete files",
                                Root)], f, << >>)
       ELSE IF ~r.ok
       THEN Out([status |-> Msg("Error: embedded null byte", Root)], f, <<"resolve">>)
       ELSE IF ~exists(f, path) \/ path = Root
       THEN Out([status |-> Msg("Error: File does not exist: ", path)],
                f, <<"resolve", "stat">>)
       ELSE Out([status |-> Msg("Successfully deleted: ", path)],
                [q \in DOMAIN f \ below |-> f[q]], <<"resolve", "stat", "unlink">>)

delete_file(f, file_path, confirm_delete) ==
    IF ~confirm_delete
    THEN Out([status |-> Msg("Error: confirm_delete must be True to delete files", Root)],
             f, << >>)
    ELSE LET r == resolve(file_path)
             path == r.path
         IN IF ~r.ok
            THEN Out([status |-> Msg("Error: embedded null byte", Root)],
                     f, <<"resolve">>)
            ELSE IF ~exists(f, path)
            THEN Out([status |-> Msg("Error: File does not exist: ", path)],
                     f, <<"resolve", "stat">>)
            ELSE IF ~is_file(f, path)
            THEN Out([status |-> Msg("Error: Path is not a file: ", path)],
                     f, <<"resolve", "stat", "stat">>)
            ELSE Out([status |-> Msg("Successfully deleted: ", path)],
                     Remove(f, path), <<"resolve", "stat", "stat", "unlink">>)

(***************************************************************************)
(* DirectoryCreator.create_directory                                       *)
(***************************************************************************)
\* a variant of create_directory without the path.exists() branch
create_directory_unchecked(f, directory_path, create_parents) ==
    LET r == resolve(directory_path)
        path == r.path
        m == mkdir(f, path, create_parents, TRUE)
    IN IF ~r.ok
       THEN Out([status |-> Msg("Error: embedded null byte", Root),
                 directory_info |-> [error |-> "embedded null byte"]],
                f, <<"resolve">>)
       ELSE IF ~m.ok
       THEN Out([status |-> Msg("Error: ", m.error),
                 directory_info |-> [error |-> m.error]],
                f, <<"resolve", "mkdir">>)
       ELSE Out([status |-> Msg("Successfully created directory: ", path),
                 directory_info |-> [path |-> path, created |-> TRUE]],
                m.fs, <<"resolve", "mkdir", "stat">>)

create_directory(f, directory_path, create_parents) ==
    LET r == resolve(directory_path)
        path == r.path
        m == mkdir(f, path, create_parents, TRUE)
    IN IF ~r.ok
       THEN Out([status |-> Msg("Error: embedded null byte", Root),
                 directory_info |-> [error |-> "embedded null byte"]],
                f, <<"resolve">>)
       ELSE IF exists(f, path)
       THEN IF is_dir(f, path)
            THEN Out([status |-> Msg("Directory already exists: ", path),
                      directory_info |-> [path |-> path, exists |-> TRUE]],
                     f, <<"resolve", "stat", "stat">>)
            ELSE Out([status |-> Msg("Error: Path exists but is not a directory", Root),
                      directory_info |-> [error |-> "Path is not a directory"]],
                     f, <<"resolve", "stat", "stat">>)
       ELSE IF ~m.ok
       THEN Out([status |-> Msg("Error: ", m.error),
                 directory_info |-> [error |-> m.error]],
                f, <<"resolve", "stat", "mkdir">>)
       ELSE Out([status |-> Msg("Successfully created directory: ", path),
                 directory_info |-> [path |-> path, created |-> TRUE]],
                m.fs, <<"resolve", "stat", "mkdir", "stat">>)

(***************************************************************************)
(* FileWriter.write_file                                                   *)
(***************************************************************************)
\* a variant of refuse_overwrite that never refuses
refuse_overwrite_never(target_exists, overwrite) == FALSE

\* path.exists() and not overwrite
refuse_overwrite(target_exists, overwrite) == target_exists /\ ~overwrite

write_file(f, file_path, content, encoding, overwrite) ==
    LET r == resolve(file_path)
        path == r.path
        m == mkdir(f, Parent(path), TRUE, TRUE)
        opened == Put(m.fs, path, File(<< >>, 0))
        e == Encode(WriteNewlines(content), encoding)
        written == Put(m.fs, path, File(e.bytes, 0))
        Fail(msg, g, t) == Out([status |-> Msg("Error: ", msg),
                                file_info |-> [error |-> msg]], g, t)
    IN IF ~r.ok THEN Fail("embedded null byte", f, <<"resolve">>)
       ELSE IF refuse_overwrite(exists(f, path), overwrite)
       THEN Out([status |-> Msg("Error: File exists and overwrite is False", Root),
                 file_info |-> [error |-> "File exists", path |-> path]],
                f, <<"resolve", "stat">>)
       ELSE IF ~m.ok THEN Fail(m.error, f, <<"resolve", "stat", "mkdir">>)
       ELSE IF is_dir(m.fs, path)
       THEN Fail("IsADirectoryError", m.fs, <<"resolve", "stat", "mkdir", "open">>)
       ELSE IF ~e.ok
       THEN Fail("UnicodeEncodeError", opened,
                 <<"resolve", "stat", "mkdir", "open", "close">>)
       ELSE Out([status |-> Msg("Successfully wrote characters to ",
                                <<Len(content), Name(path)>>),
                 file_info |-> [name |-> Name(path), path |-> path,
                                size |-> st_size(written, path),
                                encoding |-> encoding]],
                written, <<"resolve", "stat", "mkdir", "open", "write", "close", "stat">>)

(***************************************************************************)
(* FileCopy.copy_file                                                      *)
(***************************************************************************)
copy_file(f, source_path, destination_path, overwrite) ==
    LET rs == resolve(source_path)
        rd == resolve(destination_path)
        src == rs.path
        dst == rd.path
        m == mkdir(f, Parent(dst), TRUE, TRUE)
        \* shutil.copy2: a destination that is a directory receives the file
        \* under the source's name
        target == IF is_dir(m.fs, dst) THEN Append(dst, Name(src)) ELSE dst
        copied == Put(m.fs, target, f[src])
        Fail(text, msg, g, t) == Out([status |-> Msg(text, msg),
                                      file_info |-> [error |-> msg]], g, t)
    IN IF ~rs.ok \/ ~rd.ok
       THEN Fail("Error: ", "embedded null byte", f, <<"resolve">>)
       ELSE IF ~exists(f, src)
       THEN Fail("Error: Source file does not exist", "Source does not exist",
                 f, <<"resolve", "resolve", "stat">>)
       ELSE IF ~is_file(f, src)
       THEN Fail("Error: Source is not a file", "Source is not a file",
                 f, <<"resolve", "resolve", "stat", "stat">>)
       ELSE IF refuse_overwrite(exists(f, dst), overwrite)
       THEN Fail("Error: Destination exists and overwrite is False",
                 "Destination exists", f, <<"resolve", "resolve", "stat", "stat", "stat">>)
       ELSE IF ~m.ok
       THEN Fail("Error: ", m.error, f,
                 <<"resolve", "resolve", "stat", "stat", "stat", "mkdir">>)
       ELSE IF target = src
       THEN Fail("Error: ", "SameFileError", m.fs,
                 <<"resolve", "resolve", "stat", "stat", "stat", "mkdir", "stat">>)
       ELSE IF is_dir(m.fs, target)
       THEN Fail("Error: ", "IsADirectoryError", m.fs,
                 <<"resolve", "resolve", "stat", "stat", "stat", "mkdir", "stat", "open">>)
       ELSE Out([status |-> Msg("Successfully copied to ", <<Name(src), dst>>),
                 file_info |-> [source |-> src, destination |-> dst,
                                size |-> st_size(copied, dst)]],
                copied,
                <<"resolve", "resolve", "stat", "stat", "stat", "mkdir", "stat",
                  "open", "open", "read", "write", "close", "close", "utime",
                  "chmod", "stat">>)

(***************************************************************************)
(* FileReader.read_file                                                    *)
(***************************************************************************)
KiB == 1024

\* f"{file_size / 1024 / 1024:.2f}": the size in hundredths of a megabyte,
\* rounded half to even (the quotient is exact in binary floating point)
MegabytesTimes100(file_size) ==
    LET unit == KiB * KiB
        q == (file_size * 100) \div unit
        twice == 2 * ((file_size * 100) % unit)
    IN IF twice > unit \/ (twice = unit /\ q % 2 = 1) THEN q + 1 ELSE q

\* a variant of too_large that also refuses a file of exactly the ceiling
too_large_at_ceiling(file_size, max_size_mb) == file_size >= max_size_mb * KiB * KiB

\* file_size > max_size, with max_size = max_size_mb * 1024 * 1024
too_large(file_size, max_size_mb) == file_size > max_size_mb * KiB * KiB

read_file(f, file_path, encoding, max_size_mb) ==
    LET r == resolve(file_path)
        path == r.path
        file_size == st_size(f, path)
        d == Decode(f[path].data, encoding)
        Fail(msg, arg, info, t) ==
            Out([content |-> [kind |-> "error", msg |-> msg, arg |-> arg],
                 file_info |-> info], f, t)
    IN IF ~r.ok
       THEN Fail("Error: ", "embedded null byte", [error |-> "embedded null byte"],
                 <<"resolve">>)
       ELSE IF ~exists(f, path)
       THEN Fail("Error: File does not exist", Root, [error |-> "File does not exist"],
                 <<"resolve", "stat">>)
       ELSE IF ~is_file(f, path)
       THEN Fail("Error: Path is not a file", Root, [error |-> "Path is not a file"],
                 <<"resolve", "stat", "stat">>)
       ELSE IF too_large(file_size, max_size_mb)
       THEN Fail("Error: File too large", <<MegabytesTimes100(file_size), max_size_mb>>,
                 [error |-> "File too large", size |-> file_size],
                 <<"resolve", "stat", "stat", "stat">>)
       ELSE IF encoding # "binary" /\ ~d.ok
       THEN Fail("Error: ", "UnicodeDecodeError", [error |-> "UnicodeDecodeError"],
                 <<"resolve", "stat", "stat", "stat", "open", "read", "close">>)
       ELSE Out([content |->
                   IF encoding = "binary"
                   THEN [kind |-> "base64", bytes |-> f[path].data, pad |-> f[path].pad]
                   ELSE [kind |-> "text", text |-> UniversalNewlines(d.text),
                         pad |-> f[path].pad],
                 file_info |-> [name |-> Name(path), path |-> path,
                                size |-> file_size, encoding |-> encoding]],
                f, <<"resolve", "stat", "stat", "stat", "open", "read", "close", "stat">>)

(***************************************************************************)
(* FileBrowser.browse_files                                                *)
(***************************************************************************)
\* fnmatch.fnmatchcase for patterns of literals, "?" and "*"
RECURSIVE fnmatchcase(_, _)
fnmatchcase(name, pat) ==
    IF pat = << >> THEN name = << >>
    ELSE IF Head(pat) = "*"
         THEN \/ fnmatchcase(name, Tail(pat))
              \/ name # << >> /\ fnmatchcase(Tail(name), pat)
    ELSE /\ name # << >>
         /\ Head(pat) = "?" \/ Head(pat) = Head(name)
         /\ fnmatchcase(Tail(name), Tail(pat))

\* PurePath.parts of an absolute path: the root, then the names
Parts(p) == <<<<"/">>>> \o p

\* PurePath.match with a relative pattern, given as its components: the
\* components are matched against the last parts of the path.  The caller
\* has excluded the empty pattern, for which match raises ValueError
match(p, pattern) ==
    LET parts == Parts(p)
        k == Len(pattern)
        n == Len(parts)
    IN /\ k <= n
       /\ \A i \in 1..k : fnmatchcase(parts[n - k + i], pattern[i])

STAR == <<<<"*">>>>

\* the children of a directory in code-point order of their names
RECURSIVE Ascending(_)
Ascending(S) ==
    IF S = {} THEN << >>
    ELSE LET x == CHOOSE y \in S : \A z \in S \ {y} : StrLess(Last(y), Last(z))
         IN <<x>> \o Ascending(S \ {x})

Reverse(s) == [i \in 1..Len(s) |-> s[Len(s) + 1 - i]]

\* Path.iterdir: the children in the order the directory yields them, which
\* the sort below makes matter only for names equal up to case
iterdir(f, p, reversed) ==
    IF reversed THEN Reverse(Ascending(Children(f, p))) ELSE Ascending(Children(f, p))

item_info(f, item) ==
    [name |-> Last(item), path |-> item,
     size |-> IF is_file(f, item) THEN st_size(f, item) ELSE 0,
     is_dir |-> is_dir(f, item), is_file |-> is_file(f, item),
     is_symlink |-> FALSE]

startswith_dot(name) == name # << >> /\ Head(name) = "."

\* a variant of skip_hidden that lets hidden entries through
skip_hidden_never(show_hidden, name) == FALSE

\* not show_hidden and item.name.startswith('.')
skip_hidden(show_hidden, name) == ~show_hidden /\ startswith_dot(name)

\* the loop over iterdir: acc holds the two lists so far and whether
\* item.match raised
RECURSIVE scan(_, _, _, _, _)
scan(f, items, show_hidden, filter_pattern, acc) ==
    IF items = << >> \/ acc.raised THEN acc
    ELSE LET item == Head(items)
             rest == Tail(items)
         IN IF skip_hidden(show_hidden, Last(item))
            THEN scan(f, rest, show_hidden, filter_pattern, acc)
            ELSE IF is_dir(f, item)
            THEN scan(f, rest, show_hidden, filter_pattern,
                      [acc EXCEPT !.directories = Append(@, item_info(f, item))])
            ELSE IF is_file(f, item)
            THEN IF filter_pattern = STAR
                 THEN scan(f, rest, show_hidden, filter_pattern,
                           [acc EXCEPT !.files = Append(@, item_info(f, item))])
                 ELSE IF filter_pattern = << >>
                 THEN [acc EXCEPT !.raised = TRUE]
                 ELSE IF match(item, filter_pattern)
                 THEN scan(f, rest, show_hidden, filter_pattern,
                           [acc EXCEPT !.files = Append(@, item_info(f, item))])
                 ELSE scan(f, rest, show_hidden, filter_pattern, acc)
            ELSE scan(f, rest, show_hidden, filter_pattern, acc)

\* list.sort(key=lambda x: x["name"].lower()): a stable sort
RECURSIVE sort(_)
sort(list) ==
    IF list = << >> THEN << >>
    ELSE LET init == sort(Front(list))
             x == Last(list)
             k == Cardinality({i \in 1..Len(init) :
                                 ~StrLess(Lower(x.name), Lower(init[i].name))})
         IN SubSeq(init, 1, k) \o <<x>> \o SubSeq(init, k + 1, Len(init))

JsonList(items) == [tag |-> "list", items |-> items]
JsonError(msg) == [tag |-> "object", error |-> msg]
Str(of, value) == [tag |-> "string", of |-> of, value |-> value]

\* a variant of error_tuple that reports an empty directory list
error_tuple_empty_directories(msg, where) ==
    [files_json |-> JsonError(msg), directories_json |-> JsonList(<< >>),
     current_path |-> where]

\* the tuple every failing branch returns
error_tuple(msg, where) ==
    [files_json |-> JsonError(msg), directories_json |-> JsonError(msg),
     current_path |-> where]

browse_files(f, directory_path, show_hidden, filter_pattern, reversed) ==
    LET r == resolve(directory_path)
        path == r.path
        acc == scan(f, iterdir(f, path, reversed), show_hidden, filter_pattern,
                    [files |-> << >>, directories |-> << >>, raised |-> FALSE])
        Fail(msg, where, t) == Out(error_tuple(msg, where), f, t)
    IN IF ~r.ok
       THEN Fail("embedded null byte", Str("directory_path", directory_path),
                 <<"resolve">>)
       ELSE IF ~exists(f, path)
       THEN Fail("Path does not exist", Str("directory_path", directory_path),
                 <<"resolve", "stat">>)
       ELSE IF ~is_dir(f, path)
       THEN Fail("Path is not a directory", Str("directory_path", directory_path),
                 <<"resolve", "stat", "stat">>)
       ELSE IF ~f[path].readable
       THEN Fail("Permission denied", Str("path", path),
                 <<"resolve", "stat", "stat", "scandir">>)
       ELSE IF acc.raised
       THEN Fail("empty pattern", Str("directory_path", directory_path),
                 <<"resolve", "stat", "stat", "scandir", "stat">>)
       ELSE Out([files_json |-> JsonList(sort(acc.files)),
                 directories_json |-> JsonList(sort(acc.directories)),
                 current_path |-> Str("path", path)],
                f, <<"resolve", "stat", "stat", "scandir", "stat">>)

(***************************************************************************)
(* ShellExecutor.execute_command                                           *)
(*                                                                         *)
(* A command is what the shell does with the command line: whether the     *)
(* shell can be started at all, whether it runs the work in a child of its *)
(* own (a pipeline, a list) or in its own process, how many seconds the    *)
(* work takes, how it ends (exit code or signal), and what it writes.      *)
(* "bad" output is bytes that are not text in the locale's encoding.       *)
(***************************************************************************)
MaxDur == 3
MaxTimeout == 2

ExitCodes == {0, 7, 255}
Signals == {1, 9}

Ends == [type : {"exit"}, n : ExitCodes] \cup [type : {"signal"}, n : Signals]

Commands == [launch : BOOLEAN, forks : BOOLEAN, dur : 0..MaxDur, end : Ends,
             out : {"", "o", "bad"}, err : {"", "e"}]

\* Popen.returncode: the exit status, or minus the signal number
returncode(end) == IF end.type = "exit" THEN end.n ELSE 0 - end.n

\* the process the timed-out call leaves running: subprocess.run kills and
\* reaps the shell only
Orphans(command, id) ==
    IF command.forks THEN {[started_by |-> id]} ELSE {}

\* `expired` is whether communicate() raised TimeoutExpired: it did when
\* the work outlasts the timeout, did not when it ends earlier, and either
\* when the two coincide
Expiry(command, timeout_seconds) ==
    IF command.dur > timeout_seconds THEN {TRUE}
    ELSE IF command.dur < timeout_seconds THEN {FALSE}
    ELSE BOOLEAN

execute_command(f, P, id, command, working_directory, timeout_seconds, capture_output, expired) ==
    LET given == working_directory # Raw(FALSE, << >>)
        r == resolve(working_directory)
        cwd == r.path
        Result(out, err, rc, Q, t) ==
            [ret |-> [stdout |-> out, stderr |-> err, return_code |-> rc],
             procs |-> Q, trace |-> t]
        pfx == IF given THEN <<"resolve", "stat">> ELSE << >>
    IN IF given /\ ~r.ok
       THEN Result("", Msg("Error: ", "embedded null byte"), 0 - 1, P, <<"resolve">>)
       ELSE IF given /\ (~exists(f, cwd) \/ ~is_dir(f, cwd))
       THEN Result("", Msg("Error: Working directory does not exist: ", cwd),
                   0 - 1, P, pfx)
       ELSE IF ~command.launch
       THEN Result("", Msg("Error: ", "embedded null byte"), 0 - 1, P,
                   pfx \o <<"fork">>)
       ELSE IF expired
       THEN Result("", Msg("Error: Command timed out after seconds", timeout_seconds),
                   0 - 1, P \cup Orphans(command, id),
                   pfx \o <<"fork", "communicate", "kill", "wait">>)
       ELSE IF capture_output /\ command.out = "bad"
       THEN Result("", Msg("Error: ", "UnicodeDecodeError"), 0 - 1, P,
                   pfx \o <<"fork", "communicate", "wait", "decode">>)
       ELSE Result(IF capture_output THEN command.out ELSE "",
                   IF capture_output THEN Msg(command.err, "") ELSE Msg("", ""),
                   returncode(command.end), P,
                   pfx \o <<"fork", "communicate", "wait", "decode">>)

(***************************************************************************)
(* The filesystems the handlers may find.                                  *)
(***************************************************************************)
MaxSizeMb == 2

Mega(n) == n * KiB * KiB

\* a populated home: files of several encodings, hidden entries, names equal
\* up to case, a directory that may not be listed, files at the size ceilings
Populated ==
    (Root :> Dir(TRUE)) @@ (Home :> Dir(TRUE)) @@ (Cwd :> Dir(TRUE))
    @@ (Cwd \o <<n_at>> :> File(<<104>>, 0))
    @@ (Cwd \o <<n_Bt>> :> File(<<233>>, 0))
    @@ (Cwd \o <<n_bp>> :> File(<<104, 13, 10>>, 0))
    @@ (Cwd \o <<n_h>> :> File(<<104>>, 0))
    @@ (Cwd \o <<n_g>> :> File(<< >>, 0))
    @@ (Cwd \o <<n_G>> :> File(<<104, 104>>, 0))
    @@ (Cwd \o <<n_d>> :> Dir(TRUE))
    @@ (Cwd \o <<n_S>> :> Dir(TRUE))
    @@ (Cwd \o <<n_L>> :> Dir(TRUE))
    @@ (Home \o <<n_L>> :> Dir(FALSE))
    @@ (Home \o <<n_L, n_at>> :> File(<<104>>, Mega(1) - 1))
    @@ (Home \o <<n_L, n_bp>> :> File(<<104>>, Mega(1)))
    @@ (Home \o <<n_L, n_g>> :> File(<<104>>, Mega(MaxSizeMb) - 1))
    @@ (Home \o <<n_L, n_G>> :> File(<<104>>, Mega(MaxSizeMb)))

\* a bare home
Bare == (Root :> Dir(TRUE)) @@ (Home :> Dir(TRUE)) @@ (Cwd :> Dir(TRUE))

InitialFS == {Populated, Bare}

(***************************************************************************)
(* The inputs of the calls.                                                *)
(***************************************************************************)
RawPaths ==
    { Raw(TRUE, <<n_u, n_S, n_at>>),         \* /u/S/a.t
      Raw(FALSE, << >>),                     \* the empty string
      Raw(FALSE, <<n_g>>),                   \* g
      Raw(FALSE, <<TILDE, n_L>>),            \* ~/L
      Raw(FALSE, <<DOTDOT, n_L, n_at>>),     \* ../L/a.t
      Raw(TRUE, <<n_u, n_L, n_bp>>),         \* /u/L/b.p
      Raw(FALSE, <<n_at, n_d>>),             \* a.t/.d
      Raw(FALSE, <<n_S, n_S, n_bp>>),        \* S/S/b.p
      Raw(FALSE, <<DOT, n_Bt>>),             \* ./B.t
      Raw(FALSE, <<n_S>>),                   \* S
      Raw(TRUE, << >>),                      \* /
      RawNul(FALSE, <<n_at>>) }              \* a.t with a null byte

SourcePaths ==
    { Raw(TRUE, <<n_u, n_S, n_at>>), Raw(FALSE, <<DOT, n_Bt>>),
      Raw(FALSE, <<n_S>>), Raw(FALSE, <<n_S, n_S, n_bp>>),
      RawNul(FALSE, <<n_at>>) }

Contents == { <<104>>, <<8364>> }

TextEncodings == {"utf-8", "ascii", "latin-1"}
ReadEncodings == TextEncodings \cup {"binary"}

Patterns == { STAR, << >>, <<<<"*", ".", "t">>>>, <<<<"S">>, <<"?">>>> }

(***************************************************************************)
(* Initial state and the calls.                                            *)
(***************************************************************************)
NoCall == [op |-> "none"]
NoRet == [status |-> Msg("", Root)]

Init ==
    /\ fs \in InitialFS
    /\ pre = fs
    /\ call = NoCall
    /\ ret = NoRet
    /\ trace = << >>
    /\ calls = 0
    /\ procs = {}
    /\ pc = "idle"

\* one call of a file handler: it runs to its return
Step(c, o) ==
    /\ pc = "idle"
    /\ calls < MaxCalls
    /\ pc' = "returned"
    /\ calls' = calls + 1
    /\ pre' = fs
    /\ call' = c
    /\ ret' = o.ret
    /\ fs' = o.fs
    /\ trace' = o.trace
    /\ UNCHANGED procs

ListCall(paths) ==
    \E p \in paths, h \in BOOLEAN, pat \in Patterns, rev \in BOOLEAN :
        Step([op |-> "List", directory_path |-> p, show_hidden |-> h,
              filter_pattern |-> pat],
             browse_files(fs, p, h, pat, rev))

ReadCall(paths) ==
    \E p \in paths, e \in ReadEncodings, mb \in 1..MaxSizeMb :
        Step([op |-> "Read", file_path |-> p, encoding |-> e, max_size_mb |-> mb],
             read_file(fs, p, e, mb))

WriteCall(paths, contents) ==
    \E p \in paths, c \in contents, e \in TextEncodings, o \in BOOLEAN :
        Step([op |-> "Write", file_path |-> p, content |-> c, encoding |-> e,
              overwrite |-> o],
             write_file(fs, p, c, e, o))

CopyCall(sources, paths) ==
    \E s \in sources, d \in paths, o \in BOOLEAN :
        Step([op |-> "Copy", source_path |-> s, destination_path |-> d,
              overwrite |-> o],
             copy_file(fs, s, d, o))

MakeDirCall(paths) ==
    \E p \in paths, cp \in BOOLEAN :
        Step([op |-> "MakeDir", directory_path |-> p, create_parents |-> cp],
             create_directory(fs, p, cp))

DeleteCall(paths) ==
    \E p \in paths, c \in BOOLEAN :
        Step([op |-> "Delete", file_path |-> p, confirm_delete |-> c],
             delete_file(fs, p, c))

List == ListCall(RawPaths)
Read == ReadCall(RawPaths)
Write == WriteCall(RawPaths, Contents)
Copy == CopyCall(SourcePaths, RawPaths)
MakeDir == MakeDirCall(RawPaths)
Delete == DeleteCall(RawPaths)

\* the orchestrator takes the returned tuple; the gateway keeps nothing of
\* the call
Return ==
    /\ pc = "returned"
    /\ pc' = "idle"
    /\ pre' = fs
    /\ call' = NoCall
    /\ ret' = NoRet
    /\ trace' = << >>
    /\ UNCHANGED <<fs, calls, procs>>

Next == List \/ Read \/ Write \/ Copy \/ MakeDir \/ Delete \/ Return

Spec == Init /\ [][Next]_vars

(***************************************************************************)
(* Write and Read alone, over every short text of the characters "\n",     *)
(* "\r", "h", e-acute and the euro sign.                                   *)
(***************************************************************************)
MaxLen == 2

Chars == {LF, CR, 104, 233, 8364}

Texts == UNION {[1..n -> Chars] : n \in 0..MaxLen}

RoundTripPaths ==
    { Raw(FALSE, <<n_g>>), Raw(FALSE, <<n_S, n_S, n_bp>>),
      Raw(TRUE, <<n_u, n_L, n_bp>>) }

WriteText == WriteCall(RoundTripPaths, Texts)
ReadBack == ReadCall(RoundTripPaths)

NextRoundTrip == WriteText \/ ReadBack \/ Return

SpecRoundTrip == Init /\ [][NextRoundTrip]_vars

(***************************************************************************)
(* Exec and the processes it leaves behind.                                *)
(***************************************************************************)
WorkDirs == { Raw(FALSE, << >>), Raw(FALSE, <<TILDE>>), Raw(FALSE, <<n_g>>),
              RawNul(FALSE, <<n_at>>) }

Exec ==
    \E c \in Commands, wd \in WorkDirs, t \in 1..MaxTimeout, cap \in BOOLEAN :
      \E x \in Expiry(c, t) :
        LET o == execute_command(fs, procs, calls + 1, c, wd, t, cap, x)
        IN /\ pc = "idle"
           /\ calls < MaxCalls
           /\ pc' = "returned"
           /\ calls' = calls + 1
           /\ pre' = fs
           /\ call' = [op |-> "Exec", command |-> c, working_directory |-> wd,
                       timeout_seconds |-> t, capture_output |-> cap]
           /\ ret' = o.ret
           /\ trace' = o.trace
           /\ procs' = o.procs
           /\ UNCHANGED fs

\* a process left running ends by itself
child_exit ==
    \E p \in procs :
        /\ procs' = procs \ {p}
        /\ UNCHANGED <<fs, pre, call, ret, trace, calls, pc>>

NextExec == Exec \/ child_exit \/ Return

SpecExec == Init /\ [][NextExec]_vars

(***************************************************************************)
(* Properties.                                                             *)
(***************************************************************************)
Returned(op) == pc = "returned" /\ call.op = op

\* the resolved path of a raw path that resolves
Resolved(raw) == resolve(raw).path

\* C1: Delete called with confirm=false returns the confirmation-required
\* failure whatever the path (valid, nonexistent, empty, malformed) and
\* whatever the filesystem, before the path is resolved: the call makes no
\* system call and the filesystem is as it was.
C1_UnconfirmedDeleteTouchesNothing ==
    (Returned("Delete") /\ ~call.confirm_delete) =>
        /\ ret.status = Msg("Error: confirm_delete must be True to delete files", Root)
        /\ trace = << >>
        /\ fs = pre

\* an unconfirmed Delete of a path with a null byte has returned
C1_Witness ==
    /\ Returned("Delete") /\ ~call.confirm_delete
    /\ call.file_path.nul
    /\ ret.status.text = "Error: confirm_delete must be True to delete files"

\* C4: MakeDir on a path that is already a directory returns success with
\* exists:true and changes nothing; and for any path and either
\* create-parents value a second MakeDir with the same arguments leaves the
\* filesystem as the first one left it.
C4_MakeDirIdempotent ==
    Returned("MakeDir") =>
        LET raw == call.directory_path
            again == create_directory(fs, raw, call.create_parents)
        IN /\ (resolve(raw).ok /\ is_dir(pre, Resolved(raw))) =>
                  /\ ret.directory_info = [path |-> Resolved(raw), exists |-> TRUE]
                  /\ ret.status = Msg("Directory already exists: ", Resolved(raw))
                  /\ fs = pre
           /\ again.fs = fs

\* MakeDir has created a directory and its missing parent
C4_Witness ==
    /\ Returned("MakeDir")
    /\ Cardinality(DOMAIN fs) >= Cardinality(DOMAIN pre) + 2
    /\ create_directory(fs, call.directory_path, call.create_parents).ret.directory_info
         = [path |-> Resolved(call.directory_path), exists |-> TRUE]

\* C6: Read on an existing regular file passes the size check exactly when
\* the file's size in bytes is at most max_size_mb * 1024 * 1024; above the
\* ceiling it returns the too-large failure carrying the file's size in
\* bytes, and no content of the file.
C6_SizeCeiling ==
    (Returned("Read") /\ resolve(call.file_path).ok
       /\ is_file(pre, Resolved(call.file_path))) =>
        LET size == st_size(pre, Resolved(call.file_path))
            refused == ret.content.kind = "error"
                         /\ ret.content.msg = "Error: File too large"
        IN /\ refused <=> size > call.max_size_mb * 1048576
           /\ refused => ret.file_info = [error |-> "File too large", size |-> size]

\* a file of exactly the ceiling has been read
C6_Witness ==
    /\ Returned("Read") /\ resolve(call.file_path).ok
    /\ is_file(pre, Resolved(call.file_path))
    /\ st_size(pre, Resolved(call.file_path)) = call.max_size_mb * 1048576
    /\ ret.content.kind = "text"
    /\ ret.file_info.size = call.max_size_mb * 1048576

\* C9: Write whose target exists, and Copy whose destination exists and
\* whose source is an existing regular file, called with overwrite=false,
\* return the already-exists failure and leave the filesystem as it was.
C9_OverwriteGuard ==
    /\ (Returned("Write") /\ ~call.overwrite /\ resolve(call.file_path).ok
          /\ exists(pre, Resolved(call.file_path))) =>
           /\ ret.file_info = [error |-> "File exists",
                               path |-> Resolved(call.file_path)]
           /\ ret.status.text = "Error: File exists and overwrite is False"
           /\ fs = pre
    /\ (Returned("Copy") /\ ~call.overwrite
          /\ resolve(call.source_path).ok /\ resolve(call.destination_path).ok
          /\ is_file(pre, Resolved(call.source_path))
          /\ exists(pre, Resolved(call.destination_path))) =>
           /\ ret.file_info = [error |-> "Destination exists"]
           /\ ret.status.text = "Error: Destination exists and overwrite is False"
           /\ fs = pre

\* a Copy onto an existing file without overwrite has returned
C9_Witness ==
    /\ Returned("Copy") /\ ~call.overwrite
    /\ resolve(call.source_path).ok /\ resolve(call.destination_path).ok
    /\ is_file(pre, Resolved(call.source_path))
    /\ is_file(pre, Resolved(call.destination_path))
    /\ Resolved(call.source_path) # Resolved(call.destination_path)
    /\ pre[Resolved(call.source_path)] # pre[Resolved(call.destination_path)]
    /\ ret.file_info = [error |-> "Destination exists"]

\* C10: Delete with confirm=true removes something only when the resolved
\* path is an existing regular file, and then exactly that file; when the
\* path does not exist or is a directory it returns a failure and the
\* filesystem is as it was.
C10_DeleteOnlyRegularFile ==
    (Returned("Delete") /\ call.confirm_delete) =>
        LET ok == resolve(call.file_path).ok
            path == Resolved(call.file_path)
        IN IF ok /\ is_file(pre, path)
           THEN /\ fs = Remove(pre, path)
                /\ ret.status = Msg("Successfully deleted: ", path)
           ELSE /\ fs = pre
                /\ ret.status.text \in {"Error: File does not exist: ",
                                        "Error: Path is not a file: ",
                                        "Error: embedded null byte"}
                /\ (ok /\ ~exists(pre, path))
                     => ret.status.text = "Error: File does not exist: "
                /\ (ok /\ is_dir(pre, path))
                     => ret.status.text = "Error: Path is not a file: "

\* a confirmed Delete of a directory that has children has returned
C10_Witness ==
    /\ Returned("Delete") /\ call.confirm_delete
    /\ resolve(call.file_path).ok
    /\ is_dir(pre, Resolved(call.file_path))
    /\ Children(pre, Resolved(call.file_path)) # {}
    /\ fs = pre

\* the names of the entries of a JSON list
EntryNames(items) == {items[i].name : i \in 1..Len(items)}

\* whether an entry may be shown: it is not hidden, or show-hidden is set
Shown(show_hidden, q) == show_hidden \/ Head(Last(q)) # "."

\* C7: on a successful List the directories result holds every immediate
\* child that is a directory and is not hidden (every directory child when
\* show-hidden is set), whatever the filter pattern; the files result holds
\* exactly the immediate regular files that pass the same hidden rule and
\* match the pattern.  No hidden entry appears when show-hidden is false.
C7_ListContents ==
    (Returned("List") /\ ret.files_json.tag = "list") =>
        LET dir == Resolved(call.directory_path)
            kids == Children(pre, dir)
            files == ret.files_json.items
            dirs == ret.directories_json.items
        IN /\ ret.directories_json.tag = "list"
           /\ EntryNames(dirs) =
                {Last(q) : q \in {k \in kids : is_dir(pre, k)
                                              /\ Shown(call.show_hidden, k)}}
           /\ EntryNames(files) =
                {Last(q) : q \in {k \in kids :
                                    /\ is_file(pre, k)
                                    /\ Shown(call.show_hidden, k)
                                    /\ \/ call.filter_pattern = STAR
                                       \/ match(k, call.filter_pattern)}}
           /\ Len(dirs) = Cardinality(EntryNames(dirs))
           /\ Len(files) = Cardinality(EntryNames(files))
           /\ \A i \in 1..Len(dirs) : dirs[i].is_dir /\ dirs[i].path = Append(dir, dirs[i].name)
           /\ \A i \in 1..Len(files) : files[i].is_file /\ files[i].path = Append(dir, files[i].name)
           /\ ~call.show_hidden =>
                \A n \in EntryNames(dirs) \cup EntryNames(files) : Head(n) # "."

\* a List with the pattern *.t has succeeded on a directory that holds a
\* hidden file, a file the pattern rejects, one it accepts, and a
\* subdirectory the pattern would reject, which is listed
C7_Witness ==
    /\ Returned("List") /\ ret.files_json.tag = "list"
    /\ call.filter_pattern = <<<<"*", ".", "t">>>>
    /\ ~call.show_hidden
    /\ LET kids == Children(pre, Resolved(call.directory_path))
       IN /\ \E k \in kids : is_file(pre, k) /\ Head(Last(k)) = "."
          /\ \E k \in kids : is_dir(pre, k) /\ Head(Last(k)) = "."
          /\ \E k \in kids : is_file(pre, k) /\ Last(k) = n_bp
    /\ n_S \in EntryNames(ret.directories_json.items)
    /\ n_at \in EntryNames(ret.files_json.items)
    /\ n_bp \notin EntryNames(ret.files_json.items)

\* whether an output is the error object with this message
CarriesError(v, msg) == v.tag = "object" /\ v.error = msg

\* a failed List: its files output is an error object
ListFailed == Returned("List") /\ ret.files_json.tag = "object"

\* C8 as stated: whenever List fails, all three outputs (files,
\* directories, resolved path) carry the same error.
C8_AllThreeCarryError ==
    ListFailed =>
        /\ CarriesError(ret.directories_json, ret.files_json.error)
        /\ CarriesError(ret.current_path, ret.files_json.error)

\* C8 as amended: whenever List fails, the files and directories outputs
\* carry the same error object, and the third output carries no error but
\* a path string: the resolved path when the listing was denied, the path
\* as the caller gave it otherwise.
C8_FilesAndDirectoriesCarryError ==
    /\ Returned("List") =>
         (ret.files_json.tag = "object" <=> ret.directories_json.tag = "object")
    /\ ListFailed =>
         /\ ret.directories_json = ret.files_json
         /\ ret.files_json.error \in {"Path does not exist", "Path is not a directory",
                                      "Permission denied", "embedded null byte",
                                      "empty pattern"}
         /\ ret.current_path.tag = "string"
         /\ IF ret.files_json.error = "Permission denied"
            THEN ret.current_path = Str("path", Resolved(call.directory_path))
            ELSE ret.current_path = Str("directory_path", call.directory_path)
         /\ fs = pre

\* a List of a directory that may not be read has returned
C8_Witness ==
    /\ ListFailed
    /\ ret.files_json.error = "Permission denied"
    /\ ret.directories_json.error = "Permission denied"

\* whether the call made this system call
InTrace(sys) == \E i \in 1..Len(trace) : trace[i] = sys

\* C5: for any text the chosen encoding can represent, a successful
\* Write(path, content, encoding, overwrite=true) followed at once by
\* Read(path, same encoding, a ceiling not below the file's size) returns
\* exactly that content and a FileInfo whose size is the number of bytes of
\* the encoded content.
C5_RoundTrip ==
    (Returned("Write") /\ call.overwrite
       /\ ret.status.text = "Successfully wrote characters to ") =>
        \A mb \in 1..MaxSizeMb :
            st_size(fs, Resolved(call.file_path)) <= mb * 1048576 =>
                LET back == read_file(fs, call.file_path, call.encoding, mb).ret
                IN /\ back.content.kind = "text"
                   /\ back.content.text = call.content
                   /\ back.content.pad = 0
                   /\ back.file_info.size
                        = Len(Encode(call.content, call.encoding).bytes)

\* the Exec call ended in subprocess.TimeoutExpired
TimedOut == Returned("Exec") /\ InTrace("kill")

\* C2: when the command is still running at the timeout, Exec returns
\* ("", an error naming the timeout, -1), and once it has returned no
\* process the command started is still running.
C2_TimeoutLeavesNoProcess ==
    TimedOut =>
        /\ ret.stdout = ""
        /\ ret.stderr.text = "Error: Command timed out after seconds"
        /\ ret.stderr.arg = call.timeout_seconds
        /\ ret.return_code = 0 - 1
        /\ \A p \in procs : p.started_by # calls

\* the shell was started and was not killed, and ended by exiting
ExitedNormally ==
    /\ Returned("Exec")
    /\ InTrace("communicate") /\ ~InTrace("kill")
    /\ call.command.end.type = "exit"

\* C3: for a command that runs to completion the returned exit status is
\* the child's own exit status, 0 or not, and -1 is returned only when the
\* process did not run or did not complete normally: no completed child
\* makes Exec return -1.
C3_ExitStatusPassthrough ==
    Returned("Exec") =>
        /\ ExitedNormally => ret.return_code = call.command.end.n
        /\ ret.return_code = 0 - 1 => ~ExitedNormally

\* a Write that has returned a failure outcome
WriteFailed ==
    Returned("Write") /\ ret.status.text # "Successfully wrote characters to "

\* C11: any Write that returns a failure outcome (the overwrite guard, a
\* target that is a directory, content the encoding cannot represent with
\* overwrite=true on an existing file) leaves the filesystem as it was
\* before the call: an existing target keeps its content and no directory
\* has been created.
C11_FailedWriteChangesNothing ==
    WriteFailed => fs = pre

====
